---- MODULE Spec2Model ----
(***************************************************************************)
(* Model of pyrobud/command.py: the invocation Context of a command, its   *)
(* lazily resolved args attribute and its response protocol (respond,      *)
(* respond_multi) over the external primitive Bot.respond.                 *)
(*                                                                         *)
(* Python values are modelled as strings: None is "None", the booleans are *)
(* "True" and "False", a message is the name of the message object.  A     *)
(* keyword dictionary (Python kwargs) is a function whose DOMAIN is the     *)
(* set of keys the caller passed.  The positional text, redact and the     *)
(* extra keyword options are handed to the primitive untouched and decide  *)
(* nothing in this file; they are left out of the state.                   *)
(*                                                                         *)
(* The second part is the metadata tags desc, usage and alias and the      *)
(* Command descriptor that reads them off a function.                      *)
(***************************************************************************)
EXTENDS Naturals, Sequences, FiniteSets, TLC

VARIABLES
    ctor,       \* per Context id: "none", "ok", or the exception __init__ raised
    ctx,        \* per Context id: the attributes of the Context object
    task,       \* per task: the respond / respond_multi call it is in or last made
    hist,       \* per Context id: what has happened on it so far (history)
    reads,      \* per Context id: the reads of ctx.args so far (history)
    fattr,      \* per object: the attributes set on it
    applied,    \* per object: the tag applications made to it, in order (history)
    cmd         \* the outcome of the latest Command(name, mod, func)

ctxvars == <<ctor, ctx, task, hist, reads>>
cmdvars == <<fattr, applied, cmd>>
vars == <<ctor, ctx, task, hist, reads, fattr, applied, cmd>>

\* ------------------------------------------------------------------ bounds
MaxCalls == 3       \* respond / respond_multi calls started, over all Contexts
MaxReads == 2       \* reads of ctx.args per Context
MaxTags == 3        \* tag applications per function

\* ------------------------------------------------------------------ values
None == "None"
True == "True"
False == "False"

\* bool(v) for the values that occur: None, False and "" are falsy, a message
\* object (no __bool__, no __len__) and a non-empty string are truthy.
Truthy(v) == v \notin {None, False, ""}

Ctxs == {"c1", "c2"}
Tasks == {"t1", "t2"}

\* The triggering message the dispatcher hands to each Context.
TriggerMsg == [c \in Ctxs |-> IF c = "c1" THEN "m1" ELSE "m2"]
\* Its formatted text and its plain text, as sequences of characters.
MsgText == [c \in Ctxs |-> IF c = "c1" THEN <<"/", "e", " ", "*", "h", "*">>
                                         ELSE <<"/", "p">>]
MsgRawText == [c \in Ctxs |-> IF c = "c1" THEN <<"/", "e", " ", "h">>
                                            ELSE <<"/", "p">>]
CmdLen == [c \in Ctxs |-> IF c = "c1" THEN 3 ELSE 2]

\* Segment lists the dispatcher may pass (the empty one included).
SegChoices == {<<>>, <<"e">>, <<"e", "a", "b">>}

\* Messages the primitive may send anew, and a message a caller may pass as msg.
NewMsgs == {"s1", "s2"}
OtherMsg == "o"

\* Keyword values a caller may pass.
ModeArgs == {None, "reply", "edit"}
MsgArgs == {None, OtherMsg}
ReuseArgs == {True, False}

\* Exceptions the primitive may raise into the awaiting call; CancelledError is
\* what a cancelled task receives at its await.
Excs == {"NetworkError", "CancelledError"}

\* ------------------------------------------------------------------ dicts
EmptyDict == [k \in {} |-> None]

\* dict.get(key, default)
Get(d, key, default) == IF key \in DOMAIN d THEN d[key] ELSE default

\* dict.setdefault(key, value), as the resulting dict
SetDefault(d, key, value) == IF key \in DOMAIN d THEN d ELSE d @@ (key :> value)

\* The keyword dictionaries a caller may pass: every subset of the three keys,
\* every value for each.
KwValues(key) ==
    IF key = "mode" THEN ModeArgs
    ELSE IF key = "msg" THEN MsgArgs
    ELSE ReuseArgs

Kwargs ==
    UNION { {d \in [K -> ModeArgs \cup MsgArgs \cup ReuseArgs] :
                \A k \in K : d[k] \in KwValues(k)} :
            K \in SUBSET {"mode", "msg", "reuse_response"} }

\* seq[n:]
SliceFrom(seq, n) == IF n >= Len(seq) THEN <<>> ELSE SubSeq(seq, n + 1, Len(seq))

\* ------------------------------------------------------------------ Context
\* The attributes before __init__ has run (no Context object yet).
NoContext ==
    [bot |-> None, msg |-> None, segments |-> <<>>, cmd_len |-> 0,
     invoker |-> None, response |-> None, response_mode |-> None,
     input |-> <<>>, parsed_input |-> <<>>,
     has_args |-> FALSE, args |-> <<>>, args_obj |-> 0]

\* Context.__init__: segments[0] raises IndexError on an empty sequence.
InitRaises(segments) == Len(segments) = 0

NewContext(bot, msg, segments, cmd_len, text, raw_text) ==
    [bot |-> bot, msg |-> msg, segments |-> segments, cmd_len |-> cmd_len,
     invoker |-> segments[1],
     response |-> None, response_mode |-> None,
     input |-> SliceFrom(text, cmd_len),
     parsed_input |-> SliceFrom(raw_text, cmd_len),
     has_args |-> FALSE, args |-> <<>>, args_obj |-> 0]

\* ------------------------------------------------------------------ args
\* Faulty variant of GetArgs: the slice returned without being stored on the instance.
GetArgsNoCache(self, nslices) ==
    [self EXCEPT !.args = SliceFrom(self.segments, 1),
                 !.args_obj = nslices + 1]

\* Context._get_args: slices segments[1:] into a new list object (named by
\* the number of slices made so far on this Context) and stores it in the
\* instance attribute args.
GetArgs(self, nslices) ==
    [self EXCEPT !.has_args = TRUE,
                 !.args = SliceFrom(self.segments, 1),
                 !.args_obj = nslices + 1]

\* Reading ctx.args: the instance attribute when there is one; __getattr__,
\* and so _get_args, only when normal lookup finds none.
ArgsLookupMisses(self) == ~self.has_args

\* ------------------------------------------------------------------ respond
\* Faulty variant of TargetMsg: without msg, the previous response is targeted.
TargetMsgPrevious(self, msg) ==
    IF Truthy(msg) THEN msg
    ELSE IF Truthy(self.response) THEN self.response ELSE self.msg

\* msg or self.msg
TargetMsg(self, msg) == IF Truthy(msg) THEN msg ELSE self.msg

\* Faulty variants of ForwardedResponse: the mode comparison dropped; an absent
\* response replaced by the triggering message; the mode comparison inverted.
ForwardedResponseOtherMode(self, mode, reuse_response) ==
    IF Truthy(reuse_response) /\ mode # self.response_mode
    THEN self.response
    ELSE None

ForwardedResponseAnyMode(self, mode, reuse_response) ==
    IF Truthy(reuse_response) THEN self.response ELSE None

ForwardedResponseOrMsg(self, mode, reuse_response) ==
    IF Truthy(reuse_response) /\ mode = self.response_mode
    THEN (IF Truthy(self.response) THEN self.response ELSE self.msg)
    ELSE None

\* self.response if reuse_response and mode == self.response_mode else None
ForwardedResponse(self, mode, reuse_response) ==
    IF Truthy(reuse_response) /\ mode = self.response_mode
    THEN self.response
    ELSE None

\* Faulty variants of RespondUpdate: the mode assignment forgotten; a response kept
\* once there is one; the triggering message replaced by the response; the
\* mode kept once it has been set; only the mode written.
RespondUpdateModeOnly(self, result, mode) == [self EXCEPT !.response_mode = mode]

RespondUpdateNoMode(self, result, mode) == [self EXCEPT !.response = result]

RespondUpdateKeepResponse(self, result, mode) ==
    [self EXCEPT !.response = IF Truthy(self.response) THEN @ ELSE result,
                 !.response_mode = mode]

RespondUpdateRetarget(self, result, mode) ==
    [self EXCEPT !.response = result, !.response_mode = mode, !.msg = result]

RespondUpdateFirstMode(self, result, mode) ==
    [self EXCEPT !.response = result,
                 !.response_mode = IF self.response_mode = None THEN mode ELSE @]

\* The two assignments after the await, and the value respond returns.
RespondUpdate(self, result, mode) ==
    [self EXCEPT !.response = result, !.response_mode = mode]

RespondReturnValue(self) == self.response

\* Faulty variants of RespondRaise: response_mode assigned before the await;
\* the exception caught and the primitive called again.
RespondRaiseModeFirst(self, mode, exc) ==
    [self |-> [self EXCEPT !.response_mode = mode], raised |-> exc,
     again |-> FALSE]

RespondRaiseRetry(self, mode, exc) ==
    [self |-> self, raised |-> exc, again |-> TRUE]

\* The await raises: the assignment to self.response never happens, the
\* statement after it is not reached, and nothing catches the exception, so
\* it reaches the caller and the primitive is not called again.
RespondRaise(self, mode, exc) ==
    [self |-> self, raised |-> exc, again |-> FALSE]

\* Faulty variants of MultiKwargs: the defaults assigned over what the caller passed;
\* the defaults injected on the first call too; no msg default; reuse_response
\* defaulted to true.
MultiKwargsReuse(self, kwargs) ==
    IF Truthy(self.response)
    THEN SetDefault(SetDefault(SetDefault(kwargs, "mode", "reply"),
                               "msg", self.response),
                    "reuse_response", True)
    ELSE kwargs

MultiKwargsForce(self, kwargs) ==
    IF Truthy(self.response)
    THEN [k \in DOMAIN kwargs \cup {"mode", "msg", "reuse_response"} |->
            IF k = "mode" THEN "reply"
            ELSE IF k = "msg" THEN self.response
            ELSE False]
    ELSE kwargs

MultiKwargsAlways(self, kwargs) ==
    SetDefault(SetDefault(SetDefault(kwargs, "mode", "reply"),
                          "msg", self.response),
               "reuse_response", False)

MultiKwargsNoMsg(self, kwargs) ==
    IF Truthy(self.response)
    THEN SetDefault(SetDefault(kwargs, "mode", "reply"), "reuse_response", False)
    ELSE kwargs

\* respond_multi: the keyword dictionary it passes on to respond.
MultiKwargs(self, kwargs) ==
    IF Truthy(self.response)
    THEN SetDefault(SetDefault(SetDefault(kwargs, "mode", "reply"),
                               "msg", self.response),
                    "reuse_response", False)
    ELSE kwargs

\* The primitive is a black box that returns a message: one it has just sent,
\* or the target or the forwarded response after editing it.
PrimitiveResults(target, response) ==
    NewMsgs \cup {target} \cup ({response} \ {None})

\* ------------------------------------------------------------------ tags
\* The objects a Command may be built from: a command function, and an
\* object that is not callable.
Objs == {"f", "obj"}
Callable(o) == o = "f"

\* Values the tags are applied with.
DescArgs == {"d1", "d2"}
UsageArgs == {"u1", "u2"}
AliasArgs == {<<"a">>, <<"a", "b">>}

\* An object without attributes of its own.  val holds the value of the
\* attributes named in has.
NoAttrs ==
    [has |-> {},
     val |-> [_cmd_description |-> "unset", _cmd_usage |-> "unset",
              _cmd_usage_optional |-> "unset", _cmd_usage_reply |-> "unset",
              _cmd_aliases |-> <<"unset">>]]

\* setattr(o, name, value) and getattr(o, name, default)
SetAttr(o, name, value) ==
    [has |-> o.has \cup {name}, val |-> [o.val EXCEPT ![name] = value]]

GetAttr(o, name, default) == IF name \in o.has THEN o.val[name] ELSE default

\* desc(_desc)(func): the attributes of func afterwards
DescDecorator(func, _desc) == SetAttr(func, "_cmd_description", _desc)

\* Faulty variant of UsageDecorator: a flag is only set when it is given as true.
UsageDecoratorSetsTrueOnly(func, _usage, optional, reply) ==
    LET a == SetAttr(func, "_cmd_usage", _usage)
        b == IF Truthy(optional) THEN SetAttr(a, "_cmd_usage_optional", optional)
             ELSE a
    IN  IF Truthy(reply) THEN SetAttr(b, "_cmd_usage_reply", reply) ELSE b

\* usage(_usage, optional, reply)(func): the attributes of func afterwards
UsageDecorator(func, _usage, optional, reply) ==
    SetAttr(SetAttr(SetAttr(func, "_cmd_usage", _usage),
                    "_cmd_usage_optional", optional),
            "_cmd_usage_reply", reply)

\* alias(*aliases)(func): the attributes of func afterwards
AliasDecorator(func, aliases) == SetAttr(func, "_cmd_aliases", aliases)

\* What each decorator returns when applied to the object o: return func.
DecoratorReturn(o) == o

\* Command.__init__ has no check of func and no raise: getattr with a default
\* succeeds on every object.
CommandRaises(func) == FALSE

\* No Command constructed yet.
NoCommand ==
    [state |-> "none", name |-> None, desc |-> None, usage |-> None,
     usage_optional |-> None, usage_reply |-> None, aliases |-> <<>>,
     module |-> None, func |-> None, log |-> <<>>]

\* Command.__init__(name, mod, func), attrs being the attributes of func.
NewCommand(name, mod, func, attrs) ==
    [name |-> name,
     desc |-> GetAttr(attrs, "_cmd_description", None),
     usage |-> GetAttr(attrs, "_cmd_usage", None),
     usage_optional |-> GetAttr(attrs, "_cmd_usage_optional", False),
     usage_reply |-> GetAttr(attrs, "_cmd_usage_reply", False),
     aliases |-> GetAttr(attrs, "_cmd_aliases", <<>>),
     module |-> mod,
     func |-> func]

\* ------------------------------------------------------------------ state
\* A task that has made no call yet.
IdleTask ==
    [pc |-> "idle", ctx |-> None, op |-> None,
     kw |-> EmptyDict,          \* the keywords the caller passed
     rkw |-> EmptyDict,         \* the keywords respond received
     target |-> None, mode |-> None, fwd |-> None,   \* the primitive's arguments
     pre_response |-> None, pre_mode |-> None,       \* the Context at the call
     k |-> 0,                   \* the call's number on its Context
     epoch |-> 0,               \* the calls that had returned on it at the call
     fresh |-> FALSE,           \* no call on the Context had returned before it
     chain |-> FALSE,           \* see hist.chain
     overlap |-> "no",          \* "first" / "second": ran beside another call
     prim_calls |-> 0,          \* the times the call has invoked the primitive
     prim |-> None,             \* what the primitive returned or raised
     result |-> None]           \* what the caller got: a message or an exception

\* hist.chain: every call on the Context so far was a respond_multi without
\* mode, msg or reuse_response, started with no other call in flight, and every
\* finished one returned.
NoHist ==
    [ncalls |-> 0, nret |-> 0, chain |-> TRUE, last_ret |-> None,
     last_mode |-> None, returned_last |-> None]

NoReads == [n |-> 0, slices |-> 0, got |-> <<>>]

Init ==
    /\ ctor = [c \in Ctxs |-> "none"]
    /\ ctx = [c \in Ctxs |-> NoContext]
    /\ task = [t \in Tasks |-> IdleTask]
    /\ hist = [c \in Ctxs |-> NoHist]
    /\ reads = [c \in Ctxs |-> NoReads]
    /\ fattr = [o \in Objs |-> NoAttrs]
    /\ applied = [o \in Objs |-> <<>>]
    /\ cmd = NoCommand

RECURSIVE SumCalls(_)
SumCalls(S) ==
    IF S = {} THEN 0
    ELSE LET c == CHOOSE x \in S : TRUE
         IN  hist[c].ncalls + SumCalls(S \ {c})

InFlight(c) == {u \in Tasks : task[u].pc = "in_primitive" /\ task[u].ctx = c}

\* ------------------------------------------------------------------ actions
\* The dispatcher constructs the Context c: Context(bot, msg, segments, cmd_len).
Construct(c, segments) ==
    /\ ctor[c] = "none"
    /\ IF InitRaises(segments)
       THEN /\ ctor' = [ctor EXCEPT ![c] = "IndexError"]
            /\ ctx' = ctx
       ELSE /\ ctor' = [ctor EXCEPT ![c] = "ok"]
            /\ ctx' = [ctx EXCEPT ![c] =
                          NewContext("bot", TriggerMsg[c], segments, CmdLen[c],
                                     MsgText[c], MsgRawText[c])]
    /\ UNCHANGED <<task, hist, reads>>
    /\ UNCHANGED cmdvars

\* Task t enters respond on Context c with the keywords rkw (kw are the ones
\* its caller wrote, op the method the caller called): the arguments of the
\* primitive are evaluated and the task suspends in the primitive.
EnterRespond(t, c, op, kw, rkw) ==
    LET self == ctx[c]
        mode == Get(rkw, "mode", None)
        msg == Get(rkw, "msg", None)
        reuse_response == Get(rkw, "reuse_response", False)
        others == InFlight(c)
        plain == op = "respond_multi" /\ DOMAIN kw = {} /\ others = {}
    IN  /\ task[t].pc # "in_primitive"
        /\ ctor[c] = "ok"
        /\ SumCalls(Ctxs) < MaxCalls
        /\ task' = [u \in Tasks |->
                     IF u = t
                     THEN [pc |-> "in_primitive", ctx |-> c, op |-> op,
                           kw |-> kw, rkw |-> rkw,
                           target |-> TargetMsg(self, msg),
                           mode |-> mode,
                           fwd |-> ForwardedResponse(self, mode, reuse_response),
                           pre_response |-> self.response,
                           pre_mode |-> self.response_mode,
                           k |-> hist[c].ncalls + 1,
                           epoch |-> hist[c].nret,
                           fresh |-> hist[c].returned_last = None,
                           chain |-> hist[c].chain /\ plain,
                           overlap |-> IF others = {} THEN "no" ELSE "second",
                           prim_calls |-> 1,
                           prim |-> None, result |-> None]
                     ELSE IF u \in others /\ task[u].overlap = "no"
                     THEN [task[u] EXCEPT !.overlap = "first"]
                     ELSE task[u]]
        /\ hist' = [hist EXCEPT ![c].ncalls = @ + 1,
                                ![c].chain = @ /\ plain]
        /\ UNCHANGED <<ctor, ctx, reads>>
        /\ UNCHANGED cmdvars

\* ctx.respond(text, **kw)
Respond(t, c, kw) == EnterRespond(t, c, "respond", kw, kw)

\* ctx.respond_multi(text, **kw)
RespondMulti(t, c, kw) ==
    EnterRespond(t, c, "respond_multi", kw, MultiKwargs(ctx[c], kw))

\* The primitive returns message m to task t, which resumes in respond, makes
\* the two assignments and returns.
\* Faulty variant of StoreContext: response and response_mode are attributes
\* of the class, shared by every Context.
StoreContextShared(c, self) ==
    [d \in Ctxs |->
        IF d = c THEN self
        ELSE [ctx[d] EXCEPT !.response = self.response,
                            !.response_mode = self.response_mode]]

\* self.response = ..., self.response_mode = ...: the attributes are those of
\* the instance self, the Context c.
StoreContext(c, self) == [ctx EXCEPT ![c] = self]

PrimitiveReturns(t, m) ==
    LET c == task[t].ctx
        self == RespondUpdate(ctx[c], m, task[t].mode)
    IN  /\ task[t].pc = "in_primitive"
        /\ m \in PrimitiveResults(task[t].target, task[t].fwd)
        /\ ctx' = StoreContext(c, self)
        /\ task' = [task EXCEPT ![t].pc = "returned",
                                ![t].prim = m,
                                ![t].result = RespondReturnValue(self)]
        /\ hist' = [hist EXCEPT ![c].nret = @ + 1,
                                ![c].last_ret = m,
                                ![c].last_mode = Get(task[t].rkw, "mode", None),
                                ![c].returned_last = t]
        /\ UNCHANGED <<ctor, reads>>
        /\ UNCHANGED cmdvars

\* The primitive raises exc into task t (a failure of the send, or the task's
\* cancellation while it is suspended there).
PrimitiveRaises(t, exc) ==
    LET c == task[t].ctx
        out == RespondRaise(ctx[c], task[t].mode, exc)
    IN  /\ task[t].pc = "in_primitive"
        /\ ctx' = [ctx EXCEPT ![c] = out.self]
        /\ IF out.again
           THEN /\ task' = [task EXCEPT ![t].prim_calls = @ + 1]
                /\ hist' = hist
           ELSE /\ task' = [task EXCEPT ![t].pc = "raised",
                                        ![t].prim = exc,
                                        ![t].result = out.raised]
                /\ hist' = [hist EXCEPT ![c].chain = FALSE]
        /\ UNCHANGED <<ctor, reads>>
        /\ UNCHANGED cmdvars

\* A read of ctx.args.
ReadArgs(c) ==
    LET self == IF ArgsLookupMisses(ctx[c])
                THEN GetArgs(ctx[c], reads[c].slices)
                ELSE ctx[c]
    IN  /\ ctor[c] = "ok"
        /\ reads[c].n < MaxReads
        /\ ctx' = [ctx EXCEPT ![c] = self]
        /\ reads' = [reads EXCEPT
                       ![c].n = @ + 1,
                       ![c].slices = IF ArgsLookupMisses(ctx[c]) THEN @ + 1 ELSE @,
                       ![c].got = Append(@, [obj |-> self.args_obj,
                                             val |-> self.args])]
        /\ UNCHANGED <<ctor, task, hist>>
        /\ UNCHANGED cmdvars

\* A tag application to the function o, as the history records it.
TagEntry(tag, text, optional, reply, aliases, ret) ==
    [tag |-> tag, text |-> text, optional |-> optional, reply |-> reply,
     aliases |-> aliases, ret |-> ret]

Tagged(o, attrs, entry) ==
    /\ Callable(o)
    /\ Len(applied[o]) < MaxTags
    /\ fattr' = [fattr EXCEPT ![o] = attrs]
    /\ applied' = [applied EXCEPT ![o] = Append(@, entry)]
    /\ UNCHANGED cmd
    /\ UNCHANGED ctxvars

\* @desc(d) on the function o
ApplyDesc(o, d) ==
    Tagged(o, DescDecorator(fattr[o], d),
           TagEntry("desc", d, None, None, <<>>, DecoratorReturn(o)))

\* @usage(u, optional, reply) on the function o
ApplyUsage(o, u, optional, reply) ==
    Tagged(o, UsageDecorator(fattr[o], u, optional, reply),
           TagEntry("usage", u, optional, reply, <<>>, DecoratorReturn(o)))

\* @alias(*aliases) on the function o
ApplyAlias(o, aliases) ==
    Tagged(o, AliasDecorator(fattr[o], aliases),
           TagEntry("alias", None, None, None, aliases, DecoratorReturn(o)))

\* Command(name, mod, func) for the object o
MakeCommand(name, mod, o) ==
    /\ cmd' = IF CommandRaises(o)
              THEN [NoCommand EXCEPT !.state = "InvalidCommandError", !.func = o]
              ELSE NewCommand(name, mod, o, fattr[o]) @@
                   [state |-> "ok", log |-> applied[o]]
    /\ UNCHANGED <<fattr, applied>>
    /\ UNCHANGED ctxvars

\* Module load: tags are applied to a function and Commands are constructed.
NextCmd ==
    \/ \E d \in DescArgs : ApplyDesc("f", d)
    \/ \E u \in UsageArgs, optional \in {True, False}, reply \in {True, False} :
          ApplyUsage("f", u, optional, reply)
    \/ \E aliases \in AliasArgs : ApplyAlias("f", aliases)
    \/ \E o \in Objs : MakeCommand("name", "mod", o)

SpecCmd == Init /\ [][NextCmd]_vars

\* Every message there is.
Msgs == NewMsgs \cup {OtherMsg} \cup {TriggerMsg[c] : c \in Ctxs}

\* One handler invocation: the dispatcher constructs one Context, and the
\* handler makes its respond / respond_multi calls one after the other, with
\* every combination of keywords.
Next ==
    \/ \E segments \in SegChoices : Construct("c1", segments)
    \/ \E kw \in Kwargs : Respond("t1", "c1", kw)
    \/ \E kw \in Kwargs : RespondMulti("t1", "c1", kw)
    \/ \E m \in Msgs : PrimitiveReturns("t1", m)
    \/ \E exc \in Excs : PrimitiveRaises("t1", exc)

Spec == Init /\ [][Next]_vars

\* One handler invocation whose handler reads args before, between, during
\* and after its calls; the calls pass at most a mode.
ArgsKwargs == {kw \in Kwargs : DOMAIN kw \subseteq {"mode"}}

NextArgs ==
    \/ \E segments \in SegChoices : Construct("c1", segments)
    \/ ReadArgs("c1")
    \/ \E kw \in ArgsKwargs : Respond("t1", "c1", kw)
    \/ \E kw \in ArgsKwargs : RespondMulti("t1", "c1", kw)
    \/ \E m \in Msgs : PrimitiveReturns("t1", m)
    \/ \E exc \in Excs : PrimitiveRaises("t1", exc)

SpecArgs == Init /\ [][NextArgs]_vars

\* One handler invocation whose handler hands the Context to two sub-tasks
\* that call respond concurrently: a task suspended in the primitive lets the
\* other run, and one in the primitive may be cancelled.  The calls pass a
\* mode, and reuse_response or not.
ConcKwargs ==
    {kw \in Kwargs : /\ "mode" \in DOMAIN kw /\ "msg" \notin DOMAIN kw
                     /\ \A k \in DOMAIN kw : Truthy(kw[k])}

NextConc ==
    \/ Construct("c1", <<"e", "a">>)
    \/ \E t \in Tasks, kw \in ConcKwargs : Respond(t, "c1", kw)
    \/ \E t \in Tasks, m \in Msgs : PrimitiveReturns(t, m)
    \/ \E t \in Tasks : PrimitiveRaises(t, "CancelledError")

SpecConc == Init /\ [][NextConc]_vars

\* Two handler invocations, one per incoming message, each with its own
\* Context and its own task, run concurrently.  The messages of one chat (the
\* trigger and what the primitive sends in reply to it) are not those of the
\* other.
TaskOf == [c \in Ctxs |-> IF c = "c1" THEN "t1" ELSE "t2"]

ChatMsgs(c) == {TriggerMsg[c], IF c = "c1" THEN "s1" ELSE "s2"}

TwoKwargs ==
    {kw \in Kwargs : /\ DOMAIN kw \subseteq {"reuse_response"}
                     /\ \A k \in DOMAIN kw : Truthy(kw[k])}

NextTwo ==
    \/ \E c \in Ctxs : Construct(c, <<"e", "a", "b">>)
    \/ \E c \in Ctxs : ReadArgs(c)
    \/ \E c \in Ctxs, kw \in TwoKwargs : Respond(TaskOf[c], c, kw)
    \/ \E c \in Ctxs, kw \in TwoKwargs : RespondMulti(TaskOf[c], c, kw)
    \/ \E c \in Ctxs : \E m \in ChatMsgs(c) : PrimitiveReturns(TaskOf[c], m)
    \/ \E c \in Ctxs : PrimitiveRaises(TaskOf[c], "CancelledError")

SpecTwo == Init /\ [][NextTwo]_vars

\* ------------------------------------------------------------------ claims
Called(t) == task[t].pc # "idle"

\* C1: the response handed to the primitive is the Context's response at the
\* call when reuse_response is true and the requested mode equals the stored
\* response_mode, and None in every other case; with a response present, it is
\* that response exactly when both conditions hold.
C1_ForwardedResponse ==
    \A t \in Tasks : Called(t) =>
        LET reuse == Get(task[t].rkw, "reuse_response", False) = True
            same == Get(task[t].rkw, "mode", None) = task[t].pre_mode
        IN  /\ (reuse /\ same) => task[t].fwd = task[t].pre_response
            /\ ~(reuse /\ same) => task[t].fwd = None
            /\ task[t].pre_response # None =>
                  ((task[t].fwd = task[t].pre_response) <=> (reuse /\ same))

\* The edit path: reuse_response with the stored mode, on a response present.
C1_Witness ==
    \E t \in Tasks :
        /\ task[t].pc = "in_primitive"
        /\ Get(task[t].rkw, "reuse_response", False) = True
        /\ task[t].mode = "reply" /\ task[t].pre_mode = "reply"
        /\ task[t].pre_response # None
        /\ task[t].fwd = task[t].pre_response

\* C2: a constructed Context starts at (None, None), and every respond call
\* that returns leaves it at (the message the primitive returned, the requested
\* mode) and returns that message.
C2_RespondTransition ==
    [][/\ \A c \in Ctxs : (ctor[c] = "none" /\ ctor'[c] = "ok") =>
              (ctx'[c].response = None /\ ctx'[c].response_mode = None)
       /\ \A t \in Tasks :
              (task[t].pc = "in_primitive" /\ task'[t].pc = "returned") =>
                  /\ ctx'[task[t].ctx].response = task'[t].prim
                  /\ ctx'[task[t].ctx].response_mode =
                         Get(task[t].rkw, "mode", None)
                  /\ task'[t].result = task'[t].prim]_vars

\* A call without reuse_response returned on a Context that held another
\* response and another mode.
C2_Witness ==
    \E t \in Tasks :
        /\ task[t].pc = "returned"
        /\ task[t].pre_response # None
        /\ Get(task[t].rkw, "reuse_response", False) = False
        /\ task[t].prim # task[t].pre_response
        /\ task[t].mode # task[t].pre_mode
        /\ ctx[task[t].ctx].response = task[t].prim
        /\ ctx[task[t].ctx].response_mode = task[t].mode

\* C3: respond_multi on a Context with a response calls respond with exactly
\* the three keywords mode, msg and reuse_response, each as the caller passed
\* it and otherwise "reply", the Context's response and False.
C3_MultiDefaults ==
    \A t \in Tasks :
        (Called(t) /\ task[t].op = "respond_multi" /\ task[t].pre_response # None) =>
            /\ DOMAIN task[t].rkw = {"mode", "msg", "reuse_response"}
            /\ task[t].rkw["mode"] =
                  IF "mode" \in DOMAIN task[t].kw THEN task[t].kw["mode"] ELSE "reply"
            /\ task[t].rkw["msg"] =
                  IF "msg" \in DOMAIN task[t].kw THEN task[t].kw["msg"]
                  ELSE task[t].pre_response
            /\ task[t].rkw["reuse_response"] =
                  IF "reuse_response" \in DOMAIN task[t].kw
                  THEN task[t].kw["reuse_response"] ELSE False

\* An explicit msg=None and an explicit mode beside a defaulted reuse_response.
C3_Witness ==
    \E t \in Tasks :
        /\ task[t].pc = "in_primitive" /\ task[t].op = "respond_multi"
        /\ task[t].pre_response # None
        /\ DOMAIN task[t].kw = {"msg", "mode"}
        /\ task[t].kw["msg"] = None /\ task[t].kw["mode"] = None
        /\ task[t].rkw["msg"] = None /\ task[t].rkw["mode"] = None
        /\ task[t].rkw["reuse_response"] = False

\* C4: respond_multi on a Context without a response passes the caller's
\* keywords on unchanged; the primitive gets the target, mode and response a
\* plain respond with those keywords gives it, and on return the Context and
\* the caller get what a plain respond gives them.
C4_MultiFirstCall ==
    \A t \in Tasks :
        (Called(t) /\ task[t].op = "respond_multi" /\ task[t].pre_response = None) =>
            /\ task[t].rkw = task[t].kw
            /\ task[t].target =
                  IF "msg" \in DOMAIN task[t].kw /\ task[t].kw["msg"] # None
                  THEN task[t].kw["msg"] ELSE TriggerMsg[task[t].ctx]
            /\ task[t].mode =
                  IF "mode" \in DOMAIN task[t].kw THEN task[t].kw["mode"] ELSE None
            /\ task[t].fwd = None
            /\ task[t].pc = "returned" =>
                  /\ task[t].result = task[t].prim
                  /\ ctx[task[t].ctx].response = task[t].prim
                  /\ ctx[task[t].ctx].response_mode = task[t].mode

\* A first respond_multi without keywords returned.
C4_Witness ==
    \E t \in Tasks :
        /\ task[t].pc = "returned" /\ task[t].op = "respond_multi"
        /\ task[t].fresh /\ task[t].pre_response = None
        /\ DOMAIN task[t].kw = {}
        /\ task[t].target = TriggerMsg[task[t].ctx]
        /\ task[t].mode = None
        /\ ctx[task[t].ctx].response = task[t].result

C7_LastWriterWins ==
    \A t, u \in Tasks :
        (/\ t # u
         /\ task[t].pc = "returned" /\ task[u].pc = "returned"
         /\ task[t].ctx = task[u].ctx
         /\ task[t].overlap # "no" /\ task[u].overlap # "no"
         /\ hist[task[t].ctx].returned_last = t) =>
            /\ ctx[task[t].ctx].response = task[t].prim
            /\ ctx[task[t].ctx].response_mode = task[t].mode

\* The call started first returned last, with another result and mode.
C7_Witness ==
    \E t, u \in Tasks :
        /\ t # u
        /\ task[t].pc = "returned" /\ task[u].pc = "returned"
        /\ task[t].ctx = task[u].ctx
        /\ task[t].overlap = "first" /\ task[u].overlap = "second"
        /\ hist[task[t].ctx].returned_last = t
        /\ task[t].prim # task[u].prim /\ task[t].mode # task[u].mode
        /\ ctx[task[t].ctx].response = task[t].prim

\* C8: when the primitive raises into a call (a failure, or the cancellation
\* of the suspended task), the caller of respond or respond_multi gets that
\* exception, and response and response_mode stay what they were, which for a
\* call that ran alone is what they were before the call.
C8_FailureLeavesState ==
    [][\A t \in Tasks :
          (task[t].pc = "in_primitive" /\ task'[t].pc = "raised") =>
              /\ task'[t].result = task'[t].prim
              /\ task'[t].result \in Excs
              /\ ctx'[task[t].ctx].response = ctx[task[t].ctx].response
              /\ ctx'[task[t].ctx].response_mode = ctx[task[t].ctx].response_mode
              /\ task[t].overlap = "no" =>
                    /\ ctx'[task[t].ctx].response = task[t].pre_response
                    /\ ctx'[task[t].ctx].response_mode = task[t].pre_mode]_vars

\* A respond_multi cancelled in the primitive on a Context that held a
\* response sent in another mode.
C8_Witness ==
    \E t \in Tasks :
        /\ task[t].pc = "raised" /\ task[t].op = "respond_multi"
        /\ task[t].result = "CancelledError"
        /\ task[t].pre_response # None /\ task[t].mode # task[t].pre_mode
        /\ ctx[task[t].ctx].response = task[t].pre_response
        /\ ctx[task[t].ctx].response_mode = task[t].pre_mode

\* C9: a respond call made before any call on the Context has returned hands
\* response = None to the primitive, whatever its mode and reuse_response.
C9_FreshSend ==
    \A t \in Tasks : (Called(t) /\ task[t].fresh) => task[t].fwd = None

\* respond(mode=None, reuse_response=True) on a fresh Context.
C9_Witness ==
    \E t \in Tasks :
        /\ task[t].pc = "in_primitive" /\ task[t].op = "respond" /\ task[t].fresh
        /\ "reuse_response" \in DOMAIN task[t].kw
        /\ task[t].kw["reuse_response"] = True
        /\ task[t].mode = None /\ task[t].pre_mode = None
        /\ task[t].fwd = None

\* C10: args is not computed by the constructor; the first read slices
\* segments[1:] and stores it, and every read, whatever calls ran in between,
\* returns that one stored sequence: no second slice is ever made.
C10_ArgsMemo ==
    \A c \in Ctxs : ctor[c] = "ok" =>
        /\ reads[c].n = 0 => (~ctx[c].has_args /\ reads[c].slices = 0)
        /\ reads[c].n >= 1 =>
              /\ ctx[c].has_args /\ reads[c].slices = 1
              /\ \A i \in 1..Len(reads[c].got) :
                    /\ reads[c].got[i].obj = reads[c].got[1].obj
                    /\ Len(reads[c].got[i].val) = Len(ctx[c].segments) - 1
                    /\ \A j \in 1..Len(reads[c].got[i].val) :
                          reads[c].got[i].val[j] = ctx[c].segments[j + 1]

\* Two reads of a two-argument command line on a Context whose second call
\* has returned.
C10_Witness ==
    \E c \in Ctxs, t \in Tasks :
        /\ reads[c].n = 2 /\ Len(reads[c].got[2].val) = 2
        /\ task[t].pc = "returned" /\ task[t].ctx = c /\ task[t].k = 2
        /\ reads[c].got[2] = reads[c].got[1]

\* The attributes of a Context other than response and response_mode.
Frame(self) ==
    <<self.bot, self.msg, self.segments, self.cmd_len, self.invoker,
      self.input, self.parsed_input, self.has_args, self.args, self.args_obj>>

\* C11: every step of a respond or respond_multi call (entering, returning,
\* raising) leaves bot, msg, segments, cmd_len, invoker, input, parsed_input
\* and the stored args of the Context as they were.
C11_Frame ==
    [][(task' # task) => \A c \in Ctxs : Frame(ctx'[c]) = Frame(ctx[c])]_vars

\* A call raised and an earlier one returned on a Context whose args are
\* stored, and everything but the response is as constructed.
C11_Witness ==
    \E t \in Tasks :
        /\ task[t].pc = "raised" /\ task[t].pre_response # None
        /\ ctx[task[t].ctx].has_args
        /\ ctx[task[t].ctx].args = <<"a", "b">>
        /\ ctx[task[t].ctx].msg = TriggerMsg[task[t].ctx]
        /\ ctx[task[t].ctx].invoker = "e"
        /\ ctx[task[t].ctx].input = <<"*", "h", "*">>
        /\ ctx[task[t].ctx].parsed_input = <<"h">>

\* C12: a plain respond call without a msg (or with msg=None) targets the
\* triggering message, however many responses were sent before; one that passes
\* a message targets that message; and the Context's msg stays the triggering
\* message.
C12_Target ==
    /\ \A c \in Ctxs : ctor[c] = "ok" => ctx[c].msg = TriggerMsg[c]
    /\ \A t \in Tasks :
          (Called(t) /\ task[t].op = "respond") =>
              task[t].target =
                  IF "msg" \in DOMAIN task[t].kw /\ task[t].kw["msg"] # None
                  THEN task[t].kw["msg"]
                  ELSE TriggerMsg[task[t].ctx]

\* The third plain respond, after two responses, still aimed at the trigger.
C12_Witness ==
    \E t \in Tasks :
        /\ task[t].pc = "in_primitive" /\ task[t].op = "respond" /\ task[t].k = 3
        /\ "msg" \notin DOMAIN task[t].kw
        /\ task[t].pre_response \in NewMsgs
        /\ task[t].target = TriggerMsg[task[t].ctx]
        /\ ctx[task[t].ctx].msg = TriggerMsg[task[t].ctx]

\* C13: a respond or respond_multi call, in flight or finished, returned or
\* raised, has invoked the primitive exactly once.
C13_OnePrimitiveCall ==
    \A t \in Tasks : Called(t) => task[t].prim_calls = 1

\* A respond_multi on a Context with a response, failed in the primitive.
C13_Witness ==
    \E t \in Tasks :
        /\ task[t].pc = "raised" /\ task[t].op = "respond_multi"
        /\ task[t].pre_response # None
        /\ task[t].result = "NetworkError"
        /\ task[t].prim_calls = 1

\* C14: constructing a Context with empty segments fails with an
\* InvalidArgumentError and yields no Context, so every Context there is has a
\* non-empty segments.
C14_InvalidArgumentError ==
    \A c \in Ctxs :
        /\ ctor[c] = "ok" => Len(ctx[c].segments) > 0
        /\ ctor[c] \notin {"none", "ok"} =>
              (ctor[c] = "InvalidArgumentError" /\ ctx[c] = NoContext)

\* C15: constructing a Command from a func that is not callable signals an
\* InvalidCommandError and produces no Command; construction succeeds for
\* every callable func.
C15_InvalidCommandError ==
    cmd.state # "none" =>
        /\ Callable(cmd.func) => cmd.state = "ok"
        /\ ~Callable(cmd.func) =>
              (cmd.state = "InvalidCommandError" /\ cmd.name = None)

\* The latest application of the tag in the log, 0 when there is none.
LastOf(log, tag) ==
    LET S == {i \in 1..Len(log) : log[i].tag = tag}
    IN  IF S = {} THEN 0 ELSE CHOOSE i \in S : \A j \in S : j <= i

\* C16: a Command constructed from a function after any sequence of tag
\* applications has, for each tag, the values of the latest application of
\* that tag, and the default (None, None, False, False, empty) for a tag never
\* applied; applications of different tags commute, and every application
\* returned the function object it was given.
C16_LastWriteWins ==
    /\ \A o \in Objs : \A i \in 1..Len(applied[o]) : applied[o][i].ret = o
    /\ cmd.state = "ok" =>
          LET log == cmd.log
              d == LastOf(log, "desc")
              u == LastOf(log, "usage")
              a == LastOf(log, "alias")
          IN  /\ cmd.desc = IF d = 0 THEN None ELSE log[d].text
              /\ cmd.usage = IF u = 0 THEN None ELSE log[u].text
              /\ cmd.usage_optional = IF u = 0 THEN False ELSE log[u].optional
              /\ cmd.usage_reply = IF u = 0 THEN False ELSE log[u].reply
              /\ cmd.aliases = IF a = 0 THEN <<>> ELSE log[a].aliases
    /\ \A dd \in DescArgs, uu \in UsageArgs, al \in AliasArgs,
          optional \in {True, False}, reply \in {True, False} :
          LET f == fattr["f"]
          IN  /\ DescDecorator(UsageDecorator(f, uu, optional, reply), dd)
                   = UsageDecorator(DescDecorator(f, dd), uu, optional, reply)
              /\ DescDecorator(AliasDecorator(f, al), dd)
                   = AliasDecorator(DescDecorator(f, dd), al)
              /\ AliasDecorator(UsageDecorator(f, uu, optional, reply), al)
                   = UsageDecorator(AliasDecorator(f, al), uu, optional, reply)

\* usage, desc, usage were applied with different values and alias never was;
\* the Command has the second usage, the description and no aliases.
C16_Witness ==
    /\ cmd.state = "ok"
    /\ cmd.func = "f"
    /\ Len(cmd.log) = 3
    /\ cmd.log[1].tag = "usage" /\ cmd.log[1].text = "u1"
    /\ cmd.log[1].optional = True /\ cmd.log[1].reply = True
    /\ cmd.log[2].tag = "desc"
    /\ cmd.log[3].tag = "usage" /\ cmd.log[3].text = "u2"
    /\ cmd.log[3].optional = False /\ cmd.log[3].reply = False
    /\ cmd.usage = "u2"
    /\ cmd.usage_optional = False
    /\ cmd.desc = cmd.log[2].text
    /\ cmd.aliases = <<>>

\* What a call on another Context must leave alone: response, response_mode
\* and the args cache.
Private(self) ==
    <<self.response, self.response_mode, self.has_args, self.args, self.args_obj>>

\* C17: with two Contexts running concurrently, a step of a respond or
\* respond_multi call on one Context leaves response, response_mode and the
\* args cache of the other Context unchanged, and the response a call forwards
\* is the response of its own Context at the call, never a message of the
\* other Context.
C17_Isolation ==
    [][\A t \in Tasks :
          /\ task'[t] # task[t] =>
                \A c \in Ctxs \ {task'[t].ctx} : Private(ctx'[c]) = Private(ctx[c])
          /\ (task'[t].pc # "idle" /\ task'[t].fwd # None) =>
                /\ task'[t].fwd = task'[t].pre_response
                /\ \A c \in Ctxs \ {task'[t].ctx} : task'[t].fwd \notin ChatMsgs(c)]_vars

\* Both Contexts have a call in the primitive: the second call on c1 forwards
\* c1's response, while c2, whose args were read, has no response yet.
C17_Witness ==
    /\ task["t1"].pc = "in_primitive" /\ task["t1"].ctx = "c1"
    /\ task["t1"].k = 2
    /\ task["t1"].fwd = "s1"
    /\ ctx["c1"].response = "s1"
    /\ task["t2"].pc = "in_primitive" /\ task["t2"].ctx = "c2"
    /\ ctx["c2"].response = None
    /\ ctx["c2"].has_args
    /\ ~ctx["c1"].has_args

\* The call of task t asked for reuse with the mode the Context had at the call.
ReuseMatched(t) ==
    /\ Called(t)
    /\ Truthy(Get(task[t].rkw, "reuse_response", False))
    /\ task[t].mode = task[t].pre_mode

Pair(self) == <<self.response, self.response_mode>>

\* C19: in every state, response and response_mode of a Context are those
\* written by one and the same call, the last that returned (both None before
\* any has); a step that changes either is the return of a single call, which
\* writes both, so no state has response from one call and response_mode from
\* another.
C19_WrittenTogether ==
    [][\A c \in Ctxs :
          /\ Pair(ctx'[c]) # Pair(ctx[c]) =>
                \E t \in Tasks :
                    /\ task[t].ctx = c
                    /\ task[t].pc = "in_primitive" /\ task'[t].pc = "returned"
                    /\ \A u \in Tasks \ {t} : task'[u] = task[u]
                    /\ Pair(ctx'[c]) = <<task'[t].prim, task[t].mode>>
          /\ hist'[c].returned_last = None => Pair(ctx'[c]) = <<None, None>>
          /\ hist'[c].returned_last # None =>
                Pair(ctx'[c]) = <<hist'[c].last_ret, hist'[c].last_mode>>]_vars

\* Of two overlapping calls with different modes, one has returned and the
\* other is still in the primitive: response and response_mode are both those
\* of the one that returned, neither that of the earlier call.
C19_Witness ==
    /\ task["t1"].pc = "returned" /\ task["t1"].overlap = "first"
    /\ task["t1"].mode = "edit" /\ task["t1"].prim = "s2"
    /\ task["t1"].pre_response = "s1" /\ task["t1"].pre_mode = "reply"
    /\ task["t2"].pc = "in_primitive" /\ task["t2"].mode = "reply"
    /\ Pair(ctx["c1"]) = <<"s2", "edit">>

\* C20: a respond_multi call that does not pass reuse_response hands
\* response = None to the primitive, whatever the Context holds and whatever
\* mode is used; so a sequential run of such calls alone only sends new
\* messages and never edits a response sent before.
C20_MultiNeverEdits ==
    \A t \in Tasks :
        (/\ Called(t)
         /\ task[t].op = "respond_multi"
         /\ "reuse_response" \notin DOMAIN task[t].kw) =>
            /\ task[t].fwd = None
            /\ task[t].prim_calls = 1

\* The third call of a run of respond_multi calls only, none passing a
\* keyword: the Context holds a response sent in the mode the call uses, and
\* the primitive still gets response = None.
C20_Witness ==
    /\ task["t1"].op = "respond_multi"
    /\ task["t1"].chain
    /\ task["t1"].k = 3
    /\ task["t1"].pc = "returned"
    /\ task["t1"].pre_response \in NewMsgs
    /\ task["t1"].mode = task["t1"].pre_mode
    /\ task["t1"].fwd = None
    /\ task["t1"].prim \in NewMsgs \ {task["t1"].pre_response}

====
